---- MODULE Spec2Model ----
(***************************************************************************)
(* SalesSight ml_model: the per-product training pipeline (train.py,       *)
(* forecast.py), the train/validation split and the metrics (evaluate.py), *)
(* the artifact store (inference.load_models), the recommendation ranker   *)
(* (recommend.build_recommendations,                                       *)
(* inference.get_recommendations_from_models) and the startup and the      *)
(* /recommend and /products handlers of the API process (api.py).          *)
(*                                                                         *)
(* Numbers.  Python floats are modelled as exact rationals <<n, d>> with   *)
(* d > 0 (floating-point representation error is not modelled).  Sales     *)
(* totals and baseline averages are integers in thousandths of a unit, so  *)
(* that round(x, 2) really changes a value.  predicted_sales and           *)
(* growth_rate of a row are integers in hundredths, recommendation_score   *)
(* is an integer in ten-thousandths.                                       *)
(*                                                                         *)
(* Product names and file stems are sequences of one-character strings.    *)
(***************************************************************************)
EXTENDS Integers, Sequences, FiniteSets

\* ------------------------------------------------------------------------
\* Bounds of the model
\* ------------------------------------------------------------------------
MaxRanked == 2      \* products handed to one ranking call
MaxProducts == 2    \* products in one training run
MaxFiles == 2       \* *.pkl files in a models directory
MaxPoints == 3      \* rows of a series or array handed to evaluate.py

\* ------------------------------------------------------------------------
\* Program constants
\* ------------------------------------------------------------------------
VAL_DAYS == 30
HORIZON_DAYS == 30
MIN_EVAL_POINTS == 10
MIN_FIT_POINTS == 2
MAX_FNAME == 200
DEFAULT_PAST_AVG == 100

\* ------------------------------------------------------------------------
\* Exact arithmetic standing for Python float arithmetic
\* ------------------------------------------------------------------------
Abs(x) == IF x < 0 THEN -x ELSE x

RECURSIVE GCD(_, _)
GCD(a, b) == IF b = 0 THEN a ELSE GCD(b, a % b)

\* the rational n/d in lowest terms with a positive denominator (d # 0)
Rat(n, d) ==
  LET g == GCD(Abs(n), Abs(d))
      s == IF d < 0 THEN -1 ELSE 1
  IN  <<(s * n) \div g, (s * d) \div g>>

RatInt(k) == <<k, 1>>
RatAdd(a, b) == Rat(a[1] * b[2] + b[1] * a[2], a[2] * b[2])
RatSub(a, b) == Rat(a[1] * b[2] - b[1] * a[2], a[2] * b[2])
RatMul(a, b) == Rat(a[1] * b[1], a[2] * b[2])
RatDiv(a, b) == Rat(a[1] * b[2], a[2] * b[1])
RatLess(a, b) == a[1] * b[2] < b[1] * a[2]
RatLeq(a, b) == a[1] * b[2] <= b[1] * a[2]

RECURSIVE Pow10(_)
Pow10(k) == IF k = 0 THEN 1 ELSE 10 * Pow10(k - 1)

\* <<floor(r * 10^k / d), remainder>> for 0 <= r < d, one decimal digit at a time
RECURSIVE FracDigits(_, _, _)
FracDigits(r, d, k) ==
  IF k = 0 THEN <<0, r>>
  ELSE LET p == FracDigits(r, d, k - 1)
       IN  <<p[1] * 10 + ((p[2] * 10) \div d), (p[2] * 10) % d>>

\* round(x, k) of Python for x = q[1]/q[2] >= 0, as the integer x * 10^k rounded
\* half to even
RoundNonNeg(q, k) ==
  LET ip == q[1] \div q[2]
      p  == FracDigits(q[1] % q[2], q[2], k)
      fl == ip * Pow10(k) + p[1]
  IN  IF 2 * p[2] > q[2] THEN fl + 1
      ELSE IF 2 * p[2] = q[2] THEN fl + (fl % 2)
      ELSE fl

\* round(x, k): the integer nearest to x * 10^k, ties to even, symmetric in sign
Round(q, k) ==
  IF q[1] < 0 THEN -RoundNonNeg(<<-q[1], q[2]>>, k) ELSE RoundNonNeg(q, k)

\* the rational value of an integer counted in units of 10^-k
FromUnits(n, k) == Rat(n, Pow10(k))

RatMin(a, b) == IF RatLess(b, a) THEN b ELSE a
RatMax(a, b) == IF RatLess(a, b) THEN b ELSE a

\* ------------------------------------------------------------------------
\* Product names
\* ------------------------------------------------------------------------
\* the characters re.sub(r'[<>:"/\\|?*]', "_", ...) replaces
UnsafeChars == {"<", ">", ":", "\"", "/", "\\", "|", "?", "*"}

\* product names of the model, in the order sorted() gives them (code points:
\* " " < "/" < "A" < "B" < "_")
AllProducts == << <<"A">>, <<"A", " ", "B">>, <<"A", "/", "B">>, <<"A", "_", "B">>, <<"B">> >>

ProductSet == {AllProducts[k] : k \in DOMAIN AllProducts}

\* position of a name in sorted order
NameRank(p) == CHOOSE k \in DOMAIN AllProducts : AllProducts[k] = p

\* ------------------------------------------------------------------------
\* RecommendationRanker: recommend.build_recommendations and
\* inference.get_recommendations_from_models
\* ------------------------------------------------------------------------
\* A ranking entry is what one product contributes: [product, complete,
\* predicted_total, past_avg]; predicted_total = sum of the forecast over the
\* horizon and past_avg = mean of the series, both in thousandths.  complete is
\* FALSE when the series or the forecast frame is missing or empty (recommend.py
\* line 48), or when predict raised or returned nothing (inference.py 84-94).

\* mean of the horizon's forecast values: the frame holds HORIZON_DAYS rows
future_avg(e) == Rat(e.predicted_total, HORIZON_DAYS)

\* growth in percent; 0 when the baseline is not positive
compute_growth_rate(past_avg, fut_avg) ==
  IF RatLeq(past_avg, RatInt(0)) THEN RatInt(0)
  ELSE RatMul(RatDiv(RatSub(fut_avg, past_avg), past_avg), RatInt(100))

growth_rate(e) == compute_growth_rate(RatInt(e.past_avg), future_avg(e))

\* the entries that produce a row, in iteration order
RECURSIVE Eligible(_)
Eligible(es) ==
  IF es = <<>> THEN <<>>
  ELSE IF Head(es).complete THEN <<Head(es)>> \o Eligible(Tail(es))
  ELSE Eligible(Tail(es))

\* pred_sales_list and growth_list
pred_sales_list(es) == [k \in DOMAIN es |-> FromUnits(es[k].predicted_total, 3)]
growth_list(es) == [k \in DOMAIN es |-> growth_rate(es[k])]

RECURSIVE SeqMax(_)
SeqMax(qs) ==
  IF Len(qs) = 1 THEN qs[1] ELSE RatMax(qs[1], SeqMax(Tail(qs)))

RECURSIVE SeqMin(_)
SeqMin(qs) ==
  IF Len(qs) = 1 THEN qs[1] ELSE RatMin(qs[1], SeqMin(Tail(qs)))

\* pred_max = max(pred_sales_list) or 1
\* variant: the divisor max(M, 1)
pred_max_floor1(es) == RatMax(SeqMax(pred_sales_list(es)), RatInt(1))
pred_max(es) ==
  LET m == SeqMax(pred_sales_list(es)) IN IF m[1] = 0 THEN RatInt(1) ELSE m

growth_max(es) == IF es # <<>> THEN SeqMax(growth_list(es)) ELSE RatInt(1)
growth_min(es) == IF es # <<>> THEN SeqMin(growth_list(es)) ELSE RatInt(0)

\* the row appended for an entry: values rounded to 2 decimals (hundredths)
predicted_sales(e) == Round(FromUnits(e.predicted_total, 3), 2)
growth_rate_rounded(e) == Round(growth_rate(e), 2)

\* sales_norm = r["predicted_sales"] / pred_max if pred_max else 0
\* variant: the unrounded total is divided
sales_norm_unrounded(es, k) == RatDiv(FromUnits(es[k].predicted_total, 3), pred_max(es))
sales_norm(es, k) ==
  IF pred_max(es)[1] # 0
  THEN RatDiv(FromUnits(predicted_sales(es[k]), 2), pred_max(es))
  ELSE RatInt(0)

\* growth_norm: min-max scaling of the row's growth_rate, 0.5 when max = min
\* variant: 0 in the degenerate case
growth_norm_zero(es, k) ==
  IF RatLess(growth_min(es), growth_max(es))
  THEN RatDiv(RatSub(FromUnits(growth_rate_rounded(es[k]), 2), growth_min(es)),
              RatSub(growth_max(es), growth_min(es)))
  ELSE RatInt(0)
growth_norm(es, k) ==
  IF RatLess(growth_min(es), growth_max(es))
  THEN RatDiv(RatSub(FromUnits(growth_rate_rounded(es[k]), 2), growth_min(es)),
              RatSub(growth_max(es), growth_min(es)))
  ELSE Rat(1, 2)

\* 0.5 * sales_norm + 0.5 * growth_norm
blend(es, k) ==
  RatAdd(RatMul(Rat(1, 2), sales_norm(es, k)), RatMul(Rat(1, 2), growth_norm(es, k)))

\* min(hi, max(lo, x)) on integers and on rationals
ClampInt(x, lo, hi) == IF x < lo THEN lo ELSE IF hi < x THEN hi ELSE x
ClampRat(q, lo, hi) == RatMin(hi, RatMax(lo, q))

\* recommend.py: round(score, 4), then min(1.0, max(0.0, .)); in ten-thousandths
\* variant: the score is rounded and not clamped
build_score_unclamped(es, k) == Round(blend(es, k), 4)
build_score(es, k) == ClampInt(Round(blend(es, k), 4), 0, 10000)

\* inference.py: round(min(1.0, max(0.0, score)), 4); in ten-thousandths
inference_score(es, k) == Round(ClampRat(blend(es, k), RatInt(0), RatInt(1)), 4)

\* rows.sort(key=recommendation_score, reverse=True): stable, so rows of equal
\* score keep the order in which they were appended
RECURSIVE InsertDesc(_, _)
InsertDesc(sorted, r) ==
  IF sorted = <<>> THEN <<r>>
  ELSE IF Head(sorted).recommendation_score >= r.recommendation_score
       THEN <<Head(sorted)>> \o InsertDesc(Tail(sorted), r)
       ELSE <<r>> \o sorted

RECURSIVE SortAppend(_, _)
SortAppend(sorted, rows) ==
  IF rows = <<>> THEN sorted
  ELSE SortAppend(InsertDesc(sorted, Head(rows)), Tail(rows))

sort_by_score_desc(rows) == SortAppend(<<>>, rows)

\* recommend.build_recommendations(forecast_results, horizon=30)
build_recommendations(forecast_results) ==
  LET es == Eligible(forecast_results)
      rows == [k \in DOMAIN es |->
                 [product |-> es[k].product,
                  predicted_sales |-> predicted_sales(es[k]),
                  growth_rate |-> growth_rate_rounded(es[k]),
                  recommendation_score |-> build_score(es, k)]]
  IN  IF es = <<>> THEN <<>> ELSE sort_by_score_desc(rows)

\* the ranking half of inference.get_recommendations_from_models (lines 114-140)
\* on the rows collected from the models whose predict succeeded
rank_inference_rows(es) ==
  LET rows == [k \in DOMAIN es |->
                 [product |-> es[k].product,
                  predicted_sales |-> predicted_sales(es[k]),
                  growth_rate |-> growth_rate_rounded(es[k]),
                  recommendation_score |-> inference_score(es, k)]]
  IN  IF es = <<>> THEN <<>> ELSE sort_by_score_desc(rows)

Entry(p, t, b) == [product |-> p, complete |-> TRUE, predicted_total |-> t, past_avg |-> b]
Missing(p) == [product |-> p, complete |-> FALSE, predicted_total |-> 0, past_avg |-> 0]

\* the loop's locals sales_norm and growth_norm for each row (recommend.py 74-81,
\* inference.py 121-127)
norm_locals(es) ==
  [k \in DOMAIN es |->
     [product |-> es[k].product,
      sales_norm |-> sales_norm(es, k),
      growth_norm |-> growth_norm(es, k)]]

\* the model's dictionaries are functions; Keys is their key set
Keys(f) == DOMAIN f
Put(f, k, v) == [x \in (DOMAIN f) \cup {k} |-> IF x = k THEN v ELSE f[x]]
EmptyMap == <<>>
Range(sq) == {sq[k] : k \in DOMAIN sq}

\* inference.get_recommendations_from_models(models_dict, meta_dict): models_dict
\* is given by its keys in insertion order, pred[p] is what predict does for p's
\* model: [ok |-> FALSE] when it raises or yields no row, else the horizon's total
collect_rows(models_dict, meta_dict, pred) ==
  [k \in DOMAIN models_dict |->
     LET p == models_dict[k]
         has_info == p \in Keys(meta_dict)
     IN  [product |-> p,
          complete |-> has_info /\ pred[p].ok,
          predicted_total |-> pred[p].total,
          past_avg |-> IF has_info THEN meta_dict[p].past_avg ELSE 0]]

get_recommendations_from_models(models_dict, meta_dict, pred) ==
  IF models_dict = <<>> \/ Keys(meta_dict) = {} THEN <<>>
  ELSE rank_inference_rows(Eligible(collect_rows(models_dict, meta_dict, pred)))

\* ------------------------------------------------------------------------
\* ForecastModel artifacts and their file names
\* ------------------------------------------------------------------------
\* train._safe_fname / forecast._safe_filename / inference._safe_fname:
\* re.sub(r'[<>:"/\\|?*]', "_", str(name))[:200]
Min(a, b) == IF a < b THEN a ELSE b

_safe_fname(name) ==
  [k \in 1..Min(Len(name), MAX_FNAME) |->
     IF name[k] \in UnsafeChars THEN "_" ELSE name[k]]

\* inference.load_models line 48: path.stem.replace("_", " ")
stem_to_product(stem) ==
  [k \in 1..Len(stem) |-> IF stem[k] = "_" THEN " " ELSE stem[k]]

\* a pickled model: the product it was fitted for and the series it was fitted on
Model(p, on) == [product |-> p, fitted_on |-> on]
Corrupt == [product |-> <<>>, fitted_on |-> "corrupt"]

\* a JSON file: absent, unparseable ("corrupt"), parseable but no JSON object
\* ("not_object"), or an object with its mapping
AbsentFile == [state |-> "absent", doc |-> <<>>]
CorruptFile == [state |-> "corrupt", doc |-> <<>>]
NotObjectFile == [state |-> "not_object", doc |-> <<>>]
Written(doc) == [state |-> "object", doc |-> doc]

\* ------------------------------------------------------------------------
\* State
\* ------------------------------------------------------------------------
VARIABLES
  entry,             \* the entry point that is running, "none" when none is
  pc,                \* "start", "loop", "done" (returned) or "raised"
  products,          \* the product list the entry point iterates over
  series_len,        \* product -> number of points of its series
  fault,             \* product -> the ForecastModel call that raises for it
  idx,               \* position in products of the next product
  dir_exists,        \* the models directory exists
  files,             \* the models directory: stem of a .pkl file -> its content
  meta_json,         \* meta.json in the models directory (a JSON file)
  metrics,           \* run_pipeline's metrics dict: product -> record
  metrics_json,      \* output/metrics.json (a JSON file)
  forecast_results,  \* forecast_results / results: entries in insertion order
  trace,             \* product -> the stages its iteration went through
  meta,              \* the metadata dict in memory (training-only, load_models)
  models_keys,       \* keys of load_models' models dict, in insertion order
  models,            \* load_models' models dict: product -> model
  rank_in,           \* entries handed to the ranker, in the order supplied
  rank_fn,           \* "none", or the ranking function that produced rank_out
  rank_locals,       \* sales_norm and growth_norm of each row, in row order
  rank_out,          \* the recommendation list returned
  call,              \* a direct call of a function of evaluate.py, with its result
  api_up,            \* the API process finished its startup (api.lifespan)
  models_loaded,     \* api._models_loaded
  response           \* the last response of an API handler

vars == <<entry, pc, products, series_len, fault, idx, dir_exists, files,
          meta_json, metrics, metrics_json, forecast_results, trace, meta,
          models_keys, models, rank_in, rank_fn, rank_locals, rank_out,
          call, api_up, models_loaded, response>>

disk_vars == <<dir_exists, files, meta_json>>
train_vars == <<products, series_len, fault, idx, metrics, metrics_json,
                forecast_results, trace>>
load_vars == <<models_keys, models>>
rank_vars == <<rank_in, rank_fn, rank_locals>>
api_vars == <<api_up, models_loaded, response>>

\* ------------------------------------------------------------------------
\* Training: train.run_pipeline, train.run_training_only and
\* recommend.get_recommendations (forecast.run_forecasts_for_products)
\* ------------------------------------------------------------------------
EntryPoints == {"run_pipeline", "run_training_only", "get_recommendations"}

\* series lengths on each side of the thresholds: below 2, below 10, at most
\* VAL_DAYS (empty validation set), VAL_DAYS + 1 (one training point), longer
SeriesLens == {1, MIN_EVAL_POINTS - 1, VAL_DAYS, VAL_DAYS + 1, VAL_DAYS + MIN_EVAL_POINTS}

\* the call of the external ForecastModel that raises for a product
Faults == {"none", "fit_val", "predict_val", "fit_full", "predict_full"}

\* what the fitted production model forecasts and the series' mean
\* (thousandths); zero and negative values are ranked under SpecRank
TrainTotals == {500, 3300}
TrainPasts == {100}

\* sorted product lists of at most n names: get_products returns sorted()
SortedLists(n) ==
  {sq \in UNION {[1..m -> ProductSet] : m \in 0..n} :
     \A j, k \in DOMAIN sq : j < k => NameRank(sq[j]) < NameRank(sq[k])}

\* evaluate.split_train_val(series, val_days): lengths of (train, val)
split_train_val(len, val_days) ==
  IF len <= val_days THEN <<len, 0>> ELSE <<len - val_days, val_days>>

NaN == "nan"
Num == "num"
NanMetrics == [mae |-> NaN, rmse |-> NaN, error |-> FALSE]
ErrorMetrics == [mae |-> NaN, rmse |-> NaN, error |-> TRUE]

\* evaluate.evaluate_product_forecast, given that predict did not raise
evaluate_product_forecast(len, val_days) ==
  LET tv == split_train_val(len, val_days)
  IN  IF tv[2] = 0 \/ tv[1] < MIN_FIT_POINTS THEN NanMetrics
      ELSE [mae |-> Num, rmse |-> Num, error |-> FALSE]

\* evaluate_product_forecast calls model.predict only when it has data
ValPredictRuns(len, val_days) ==
  LET tv == split_train_val(len, val_days)
  IN  ~(tv[2] = 0 \/ tv[1] < MIN_FIT_POINTS)

TrainIdle ==
  /\ products = <<>>
  /\ series_len = EmptyMap
  /\ fault = EmptyMap
  /\ idx = 1
  /\ metrics = EmptyMap
  /\ metrics_json = AbsentFile
  /\ forecast_results = <<>>
  /\ trace = EmptyMap

LoadIdle ==
  /\ models_keys = <<>>
  /\ models = EmptyMap

RankIdle ==
  /\ rank_in = <<>>
  /\ rank_fn = "none"
  /\ rank_locals = <<>>

NoCall == [fn |-> "none"]
EvalIdle == call = NoCall

NoResponse == [handler |-> "none", body |-> <<>>]

ApiIdle ==
  /\ api_up = FALSE
  /\ models_loaded = FALSE
  /\ response = NoResponse

TrainInit ==
  /\ entry \in EntryPoints
  /\ pc = "start"
  /\ products \in SortedLists(MaxProducts)
  /\ series_len \in [Range(products) -> SeriesLens]
  /\ fault \in [Range(products) -> Faults]
  /\ idx = 1
  /\ dir_exists = FALSE
  /\ files = EmptyMap
  /\ meta_json = AbsentFile
  /\ metrics = EmptyMap
  /\ metrics_json = AbsentFile
  /\ forecast_results = <<>>
  /\ trace = EmptyMap
  /\ meta = EmptyMap
  /\ LoadIdle
  /\ RankIdle
  /\ rank_out = <<>>
  /\ EvalIdle
  /\ ApiIdle

\* the preamble of the three entry points: mkdir, then the empty-list exits
Start ==
  /\ pc = "start"
  /\ entry \in EntryPoints
  /\ dir_exists' = (dir_exists \/ entry # "get_recommendations" \/ products # <<>>)
  /\ pc' = IF products # <<>> THEN "loop"
           ELSE IF entry = "run_training_only" THEN "raised" ELSE "done"
  /\ UNCHANGED <<call, api_vars, entry, train_vars, files, meta_json, meta, load_vars, rank_vars, rank_out>>

Cur == products[idx]
InLoop(e) == entry = e /\ pc = "loop" /\ idx <= Len(products)
AtEnd(e) == entry = e /\ pc = "loop" /\ idx > Len(products)

\* the stages train._train_and_evaluate_one_product goes through for a product
\* of len points whose ForecastModel fault is f; the last stage may have raised
StagesOf(len, f, val_days) ==
  LET tv == split_train_val(len, val_days) IN
  IF len < MIN_EVAL_POINTS THEN <<"prepare">>
  ELSE IF tv[1] < MIN_FIT_POINTS THEN <<"prepare", "split">>
  ELSE IF f = "fit_val" THEN <<"prepare", "split", "fit_val">>
  ELSE IF f = "predict_val" /\ ValPredictRuns(len, val_days)
       THEN <<"prepare", "split", "fit_val", "evaluate">>
  ELSE IF f = "fit_full" THEN <<"prepare", "split", "fit_val", "evaluate", "fit_full">>
  ELSE IF f = "predict_full"
       THEN <<"prepare", "split", "fit_val", "evaluate", "fit_full", "persist", "forecast">>
  ELSE <<"prepare", "split", "fit_val", "evaluate", "fit_full", "persist", "forecast", "return">>

Last(sq) == sq[Len(sq)]
Has(sq, x) == \E k \in DOMAIN sq : sq[k] = x

\* a fit that writes its model whether or not a save_path is given
train_prophet_always_saves(dir, p, on, save) ==
  Put(dir, _safe_fname(p), Model(p, on))

\* the models directory after forecast.train_prophet_for_product fitted a model
\* of product p on the series named on ("train_series" or "full"), given that
\* the fit did not raise; save tells whether a save_path was passed
train_prophet_for_product(dir, p, on, save) ==
  IF save THEN Put(dir, _safe_fname(p), Model(p, on)) ELSE dir

\* one iteration of run_pipeline's loop (train.py 169-178) with the whole of
\* _train_and_evaluate_one_product (train.py 35-67)
TrainAndEvaluateOne ==
  /\ InLoop("run_pipeline")
  /\ LET p == Cur
         st == StagesOf(series_len[p], fault[p], VAL_DAYS)
         skipped == Last(st) \in {"prepare", "split"}
         trained == Last(st) = "return"
         raised == ~skipped /\ ~trained
     IN  /\ trace' = Put(trace, p, st)
         /\ files' =
              LET after_val == IF Has(st, "evaluate")
                               THEN train_prophet_for_product(files, p, "train_series", FALSE)
                               ELSE files
              IN  IF Has(st, "persist")
                  THEN train_prophet_for_product(after_val, p, "full", TRUE)
                  ELSE after_val
         /\ metrics' =
              IF raised THEN Put(metrics, p, ErrorMetrics)
              ELSE IF trained
                   THEN Put(metrics, p, evaluate_product_forecast(series_len[p], VAL_DAYS))
              ELSE metrics
         /\ IF trained
            THEN \E t \in TrainTotals, b \in TrainPasts :
                   forecast_results' = Append(forecast_results, Entry(p, t, b))
            ELSE UNCHANGED forecast_results
  /\ idx' = idx + 1
  /\ UNCHANGED <<call, api_vars, entry, pc, products, series_len, fault, dir_exists, meta_json,
                 metrics_json, meta, load_vars, rank_vars, rank_out>>

\* the metadata run_pipeline derives from forecast_results (train.py 184-192)
meta_of_results(res) ==
  [p \in {res[k].product : k \in DOMAIN res} |->
     [past_avg |-> (CHOOSE e \in Range(res) : e.product = p).past_avg]]

\* run_pipeline after the loop: rank, write meta.json, recommendations.json and
\* metrics.json, return (train.py 181-211)
FinishPipeline ==
  /\ AtEnd("run_pipeline")
  /\ rank_in' = forecast_results
  /\ rank_fn' = "build_recommendations"
  /\ rank_locals' = norm_locals(Eligible(forecast_results))
  /\ rank_out' = build_recommendations(forecast_results)
  /\ meta_json' = Written(meta_of_results(forecast_results))
  /\ metrics_json' = Written(metrics)
  /\ pc' = "done"
  /\ UNCHANGED <<call, api_vars, entry, products, series_len, fault, idx, dir_exists, files,
                 metrics, forecast_results, trace, meta, load_vars>>

\* one iteration of run_training_only's loop (train.py 100-115)
TrainOnlyOne ==
  /\ InLoop("run_training_only")
  /\ LET p == Cur
         short == series_len[p] < MIN_FIT_POINTS
         raises == ~short /\ fault[p] = "fit_full"
     IN  /\ trace' = Put(trace, p,
                         IF short THEN <<"prepare">>
                         ELSE IF raises THEN <<"prepare", "fit_full">>
                         ELSE <<"prepare", "fit_full", "persist", "meta">>)
         /\ files' = IF short \/ raises THEN files
                     ELSE train_prophet_for_product(files, p, "full", TRUE)
         /\ IF short \/ raises THEN UNCHANGED meta
            ELSE \E b \in TrainPasts : meta' = Put(meta, p, [past_avg |-> b])
  /\ idx' = idx + 1
  /\ UNCHANGED <<call, api_vars, entry, pc, products, series_len, fault, dir_exists, meta_json,
                 metrics, metrics_json, forecast_results, load_vars, rank_vars, rank_out>>

\* run_training_only after the loop: write meta.json (train.py 117-120)
FinishTrainingOnly ==
  /\ AtEnd("run_training_only")
  /\ meta_json' = Written(meta)
  /\ pc' = "done"
  /\ UNCHANGED <<call, api_vars, entry, train_vars, dir_exists, files, meta, load_vars, rank_vars, rank_out>>

\* one iteration of run_forecasts_for_products' loop (forecast.py 93-107); an
\* exception of fit or predict leaves the loop and the function
ForecastOne ==
  /\ InLoop("get_recommendations")
  /\ LET p == Cur
         short == series_len[p] < MIN_FIT_POINTS
         fit_raises == ~short /\ fault[p] = "fit_full"
         predict_raises == ~short /\ fault[p] = "predict_full"
     IN  /\ trace' = Put(trace, p,
                         IF short THEN <<"prepare">>
                         ELSE IF fit_raises THEN <<"prepare", "fit_full">>
                         ELSE IF predict_raises
                              THEN <<"prepare", "fit_full", "persist", "forecast">>
                         ELSE <<"prepare", "fit_full", "persist", "forecast", "return">>)
         /\ files' = IF short \/ fit_raises THEN files
                     ELSE train_prophet_for_product(files, p, "full", TRUE)
         /\ pc' = IF fit_raises \/ predict_raises THEN "raised" ELSE pc
         /\ IF short \/ fit_raises \/ predict_raises
            THEN UNCHANGED forecast_results
            ELSE \E t \in TrainTotals, b \in TrainPasts :
                   forecast_results' = Append(forecast_results, Entry(p, t, b))
  /\ idx' = idx + 1
  /\ UNCHANGED <<call, api_vars, entry, products, series_len, fault, dir_exists, meta_json,
                 metrics, metrics_json, meta, load_vars, rank_vars, rank_out>>

\* recommend.get_recommendations after run_forecasts_for_products returned
FinishGetRecommendations ==
  /\ AtEnd("get_recommendations")
  /\ rank_in' = forecast_results
  /\ rank_fn' = "build_recommendations"
  /\ rank_locals' = norm_locals(Eligible(forecast_results))
  /\ rank_out' = build_recommendations(forecast_results)
  /\ pc' = "done"
  /\ UNCHANGED <<call, api_vars, entry, train_vars, disk_vars, meta, load_vars>>

TrainNext ==
  \/ Start
  \/ TrainAndEvaluateOne
  \/ FinishPipeline
  \/ TrainOnlyOne
  \/ FinishTrainingOnly
  \/ ForecastOne
  \/ FinishGetRecommendations

SpecTrain == TrainInit /\ [][TrainNext]_vars

\* run_pipeline alone
PipelineInit == TrainInit /\ entry = "run_pipeline"
PipelineNext == Start \/ TrainAndEvaluateOne \/ FinishPipeline
SpecPipeline == PipelineInit /\ [][PipelineNext]_vars

\* ------------------------------------------------------------------------
\* ArtifactStore: inference.load_models and ranking from the loaded store
\* ------------------------------------------------------------------------
\* the placeholder baseline {"past_avg": 100}, in thousandths
PlaceholderMeta == [past_avg |-> DEFAULT_PAST_AVG * 1000]

Stems == {_safe_fname(p) : p \in ProductSet}

\* what a .pkl file named stem can hold
Blobs(stem) == {Corrupt} \cup {Model(p, "full") : p \in {q \in ProductSet : _safe_fname(q) = stem}}

Dirs(n) ==
  UNION {{f \in [S -> UNION {Blobs(st) : st \in S}] : \A st \in S : f[st] \in Blobs(st)} :
           S \in {T \in SUBSET Stems : Cardinality(T) <= n}}

MetaDocs ==
  {AbsentFile, CorruptFile, NotObjectFile} \cup
  {Written([p \in S |-> [past_avg |-> 100]]) : S \in SUBSET ProductSet}

\* the orders in which glob("*.pkl") can list the files
Listings(S) ==
  {sq \in [1..Cardinality(S) -> S] : \A j, k \in DOMAIN sq : j # k => sq[j] # sq[k]}

\* a loop body that generates no placeholder metadata
load_step_no_placeholder(st, stem, blob) ==
  LET name == stem_to_product(stem)
      loaded == blob # Corrupt
  IN  [keys |-> IF loaded /\ name \notin Range(st.keys) THEN Append(st.keys, name) ELSE st.keys,
       models |-> IF loaded THEN Put(st.models, name, blob) ELSE st.models,
       meta |-> st.meta]

\* the loop of load_models (inference.py 47-58) over the listed files: st holds
\* the keys of models in insertion order, models and meta
load_step(st, stem, blob) ==
  LET name == stem_to_product(stem)
      loaded == blob # Corrupt
  IN  [keys |-> IF loaded /\ name \notin Range(st.keys) THEN Append(st.keys, name) ELSE st.keys,
       models |-> IF loaded THEN Put(st.models, name, blob) ELSE st.models,
       meta |-> IF name \notin Keys(st.meta)
                THEN Put(st.meta, name, PlaceholderMeta) ELSE st.meta]

RECURSIVE load_loop(_, _, _)
load_loop(st, listing, dir) ==
  IF listing = <<>> THEN st
  ELSE load_loop(load_step(st, Head(listing), dir[Head(listing)]), Tail(listing), dir)

\* load_models raises when meta.json parses to something that is no dict and a
\* .pkl file is listed: "name not in meta" or "meta[name] = ..." is a TypeError
load_raises(mj, dir) == mj.state = "not_object" /\ Keys(dir) # {}

\* inference.load_models(models_dir) for one listing order
load_models(exists, mj, dir, listing) ==
  IF ~exists THEN [keys |-> <<>>, models |-> EmptyMap, meta |-> EmptyMap]
  ELSE load_loop([keys |-> <<>>, models |-> EmptyMap,
                  meta |-> IF mj.state = "object" THEN mj.doc ELSE EmptyMap],
                 listing, dir)

LoadInit ==
  /\ entry = "load_models"
  /\ pc = "start"
  /\ TrainIdle
  /\ dir_exists \in BOOLEAN
  /\ files \in Dirs(MaxFiles)
  /\ meta_json \in MetaDocs
  /\ ~dir_exists => files = EmptyMap /\ meta_json = AbsentFile
  /\ meta = EmptyMap
  /\ LoadIdle
  /\ RankIdle
  /\ rank_out = <<>>
  /\ EvalIdle
  /\ ApiIdle

LoadModels ==
  /\ entry = "load_models"
  /\ pc = "start"
  /\ IF dir_exists /\ load_raises(meta_json, files)
     THEN /\ pc' = "raised"
          /\ UNCHANGED <<meta, load_vars>>
     ELSE \E listing \in Listings(Keys(files)) :
            LET st == load_models(dir_exists, meta_json, files, listing)
            IN  /\ models_keys' = st.keys
                /\ models' = st.models
                /\ meta' = st.meta
                /\ pc' = "done"
  /\ UNCHANGED <<call, api_vars, entry, train_vars, disk_vars, rank_vars, rank_out>>

\* what predict yields for a loaded model: it raises, or the horizon's total
Predictions == {[ok |-> FALSE, total |-> 0], [ok |-> TRUE, total |-> 500],
                [ok |-> TRUE, total |-> 3300]}

\* inference.get_recommendations_from_models(_models, _meta) on the loaded store
RecommendFromStore ==
  /\ entry = "load_models"
  /\ pc = "done"
  /\ rank_fn = "none"
  /\ \E pred \in [Range(models_keys) -> Predictions] :
       /\ rank_in' = collect_rows(models_keys, meta, pred)
       /\ rank_locals' = norm_locals(Eligible(collect_rows(models_keys, meta, pred)))
       /\ rank_out' = get_recommendations_from_models(models_keys, meta, pred)
  /\ rank_fn' = "get_recommendations_from_models"
  /\ UNCHANGED <<call, api_vars, entry, pc, train_vars, disk_vars, meta, load_vars>>

LoadNext == LoadModels \/ RecommendFromStore

SpecLoad == LoadInit /\ [][LoadNext]_vars

\* ------------------------------------------------------------------------
\* Training followed by loading: train.MODELS_DIR and inference.MODELS_DIR are
\* the same directory
\* ------------------------------------------------------------------------
Trainers == {"run_pipeline", "run_training_only"}

RoundTripInit == TrainInit /\ entry \in Trainers

\* after the training run returned, a process calls load_models on the
\* directory the run wrote
StartInference ==
  /\ entry \in Trainers
  /\ pc = "done"
  /\ entry' = "load_models"
  /\ pc' = "start"
  /\ UNCHANGED <<call, api_vars, train_vars, disk_vars, meta, load_vars, rank_vars, rank_out>>

RoundTripNext ==
  \/ Start
  \/ TrainAndEvaluateOne
  \/ FinishPipeline
  \/ TrainOnlyOne
  \/ FinishTrainingOnly
  \/ StartInference
  \/ LoadModels

SpecRoundTrip == RoundTripInit /\ [][RoundTripNext]_vars

\* ------------------------------------------------------------------------
\* InferenceServer: api.lifespan and the handlers of /recommend and /products
\* ------------------------------------------------------------------------
\* a row of the mock list; the name is kept as one string
MockRow(name, sales, growth, score) ==
  [product |-> <<name>>, predicted_sales |-> sales, growth_rate |-> growth,
   recommendation_score |-> score]

\* the list /recommend returns when no model is loaded (api.py 91-95), in the
\* units of the ranked rows
MockRecommendations ==
  << MockRow("Mock Product A", 50000, 1550, 9500),
     MockRow("Mock Product B", 30000, 1020, 8800),
     MockRow("Mock Product C", 15000, 500, 7500) >>

\* a handler that answers with an empty list when no model is loaded
recommend_empty(loaded, models_dict, meta_dict, pred) ==
  IF ~loaded THEN <<>>
  ELSE get_recommendations_from_models(models_dict, meta_dict, pred)

\* api.recommend(): the body of the response of GET /recommend
recommend(loaded, models_dict, meta_dict, pred) ==
  IF ~loaded THEN MockRecommendations
  ELSE get_recommendations_from_models(models_dict, meta_dict, pred)

\* api.get_products(): the "products" list of the response of GET /products
get_products(loaded, models_dict) == IF ~loaded THEN <<>> ELSE models_dict

\* startup of the API process: load_models, then _models_loaded; an exception
\* of load_models ends the startup
Lifespan ==
  /\ entry = "lifespan"
  /\ pc = "start"
  /\ IF dir_exists /\ load_raises(meta_json, files)
     THEN /\ pc' = "raised"
          /\ UNCHANGED <<meta, load_vars, api_up, models_loaded>>
     ELSE \E listing \in Listings(Keys(files)) :
            LET st == load_models(dir_exists, meta_json, files, listing)
            IN  /\ models_keys' = st.keys
                /\ models' = st.models
                /\ meta' = st.meta
                /\ models_loaded' = (Len(st.keys) > 0)
                /\ api_up' = TRUE
                /\ pc' = "done"
  /\ UNCHANGED <<call, response, entry, train_vars, disk_vars, rank_vars, rank_out>>

\* GET /recommend; the handlers only read the store, so the first request of
\* a run shows every response the process can give
ApiRecommend ==
  /\ api_up
  /\ response = NoResponse
  /\ \E pred \in [Range(models_keys) -> Predictions] :
       response' = [handler |-> "recommend",
                    body |-> recommend(models_loaded, models_keys, meta, pred)]
  /\ UNCHANGED <<call, api_up, models_loaded, entry, pc, train_vars, disk_vars, meta,
                 load_vars, rank_vars, rank_out>>

\* GET /products
ApiGetProducts ==
  /\ api_up
  /\ response = NoResponse
  /\ response' = [handler |-> "products", body |-> get_products(models_loaded, models_keys)]
  /\ UNCHANGED <<call, api_up, models_loaded, entry, pc, train_vars, disk_vars, meta,
                 load_vars, rank_vars, rank_out>>

ApiNext == Lifespan \/ ApiRecommend \/ ApiGetProducts

\* a models directory read by the API process or by a direct caller of
\* inference.py
ApiInit ==
  /\ entry \in {"lifespan", "load_models"}
  /\ pc = "start"
  /\ TrainIdle
  /\ dir_exists \in BOOLEAN
  /\ files \in Dirs(MaxFiles)
  /\ meta_json \in MetaDocs
  /\ ~dir_exists => files = EmptyMap /\ meta_json = AbsentFile
  /\ meta = EmptyMap
  /\ LoadIdle
  /\ RankIdle
  /\ rank_out = <<>>
  /\ EvalIdle
  /\ ApiIdle

SpecApi == ApiInit /\ [][LoadNext \/ ApiNext]_vars

\* ------------------------------------------------------------------------
\* Ranking calls on arbitrary inputs
\* ------------------------------------------------------------------------
\* inputs of the ranking model: totals and baselines in thousandths
Totals == {-2000, 0, 500, 1004, 3300}
Pasts == {0, 100}

Entries ==
  {Entry(p, t, b) : p \in {<<"A">>, <<"B">>, <<"A", " ", "B">>}, t \in Totals, b \in Pasts}
    \cup {Missing(<<"A">>), Missing(<<"B">>)}

\* sequences of at most n entries
RECURSIVE EntrySeqs(_)
EntrySeqs(n) ==
  IF n = 0 THEN {<<>>}
  ELSE LET shorter == EntrySeqs(n - 1)
       IN  shorter \cup
           {Append(sq, e) : sq \in {x \in shorter : Len(x) = n - 1},
                            e \in Entries}

\* dictionary keys are distinct
DistinctProducts(es) ==
  \A j, k \in DOMAIN es : j # k => es[j].product # es[k].product

RankInit ==
  /\ entry = "none"
  /\ pc = "done"
  /\ TrainIdle
  /\ dir_exists = FALSE
  /\ files = EmptyMap
  /\ meta_json = AbsentFile
  /\ meta = EmptyMap
  /\ LoadIdle
  /\ rank_in \in {es \in EntrySeqs(MaxRanked) : DistinctProducts(es)}
  /\ rank_fn = "none"
  /\ rank_locals = <<>>
  /\ rank_out = <<>>
  /\ EvalIdle
  /\ ApiIdle

\* a caller hands the entries to recommend.build_recommendations
CallBuildRecommendations ==
  /\ entry = "none"
  /\ rank_fn = "none"
  /\ rank_fn' = "build_recommendations"
  /\ rank_locals' = norm_locals(Eligible(rank_in))
  /\ rank_out' = build_recommendations(rank_in)
  /\ UNCHANGED <<call, api_vars, entry, pc, train_vars, disk_vars, meta, load_vars, rank_in>>

\* a caller hands the same data, as loaded models with their metadata and
\* predictions, to inference.get_recommendations_from_models
CallGetRecommendationsFromModels ==
  /\ entry = "none"
  /\ rank_fn = "none"
  /\ rank_fn' = "get_recommendations_from_models"
  /\ rank_locals' = norm_locals(Eligible(rank_in))
  /\ rank_out' =
       LET ps == [k \in DOMAIN rank_in |-> rank_in[k].product]
           by == [p \in Range(ps) |-> CHOOSE e \in Range(rank_in) : e.product = p]
       IN  get_recommendations_from_models(
             ps,
             [p \in {q \in Range(ps) : by[q].complete} |-> [past_avg |-> by[p].past_avg]],
             [p \in Range(ps) |-> [ok |-> by[p].complete, total |-> by[p].predicted_total]])
  /\ UNCHANGED <<call, api_vars, entry, pc, train_vars, disk_vars, meta, load_vars, rank_in>>

RankNext == CallBuildRecommendations \/ CallGetRecommendationsFromModels

SpecRank == RankInit /\ [][RankNext]_vars

\* ------------------------------------------------------------------------
\* Direct calls of evaluate.py: split_train_val, evaluate_product_forecast
\* and evaluate_predictions on arbitrary inputs
\* ------------------------------------------------------------------------
\* a point of a Prophet-format series: its date ds and its value y
Point(d) == [ds |-> d, y |-> 100 * d]

\* series of at most n points with distinct dates, in any row order
SeriesUpTo(n) ==
  {[k \in DOMAIN sq |-> Point(sq[k])] :
     sq \in {x \in UNION {[1..m -> 1..n] : m \in 0..n} :
               \A j, k \in DOMAIN x : j # k => x[j] # x[k]}}

\* series.sort_values("ds").reset_index(drop=True)
RECURSIVE sort_values_ds(_)
sort_values_ds(series) ==
  IF series = <<>> THEN <<>>
  ELSE LET k == CHOOSE j \in DOMAIN series :
                  \A i \in DOMAIN series : series[j].ds <= series[i].ds
           rest == [i \in 1..(Len(series) - 1) |->
                      IF i < k THEN series[i] ELSE series[i + 1]]
       IN  <<series[k]>> \o sort_values_ds(rest)

\* series.iloc[:n] and series.iloc[n:] for 0 <= n <= len(series)
iloc_to(series, n) == SubSeq(series, 1, n)
iloc_from(series, n) == SubSeq(series, n + 1, Len(series))

\* a split that keeps the first val_days rows for validation instead
split_rows_head(series, val_days) ==
  LET sorted == sort_values_ds(series)
  IN  IF Len(sorted) <= val_days THEN <<sorted, <<>>>>
      ELSE <<iloc_from(sorted, val_days), iloc_to(sorted, val_days)>>

\* evaluate.split_train_val(series, val_days) on the rows: <<train, val>>
split_train_val_rows(series, val_days) ==
  LET sorted == sort_values_ds(series)
      split_idx == Len(sorted) - val_days
  IN  IF Len(sorted) <= val_days THEN <<sorted, <<>>>>
      ELSE <<iloc_to(sorted, split_idx), iloc_from(sorted, split_idx)>>

\* a float of an input array: NaN, or a number
NanVal == [nan |-> TRUE, v |-> 0]
Val(v) == [nan |-> FALSE, v |-> v]
ArrayValues == {NanVal, Val(0), Val(2), Val(-1)}
ArraysUpTo(n) == UNION {[1..m -> ArrayValues] : m \in 0..n}

\* a metric: NaN, or the number n / d
NanMetric == [nan |-> TRUE, v |-> <<0, 1>>]
Metric(q) == [nan |-> FALSE, v |-> q]

RECURSIVE SeqSum(_)
SeqSum(sq) == IF sq = <<>> THEN 0 ELSE Head(sq) + SeqSum(Tail(sq))

\* a[mask]: the elements of sq at the positions where mask holds
RECURSIVE Masked(_, _)
Masked(sq, mask) ==
  IF sq = <<>> THEN <<>>
  ELSE (IF Head(mask) THEN <<Head(sq)>> ELSE <<>>) \o Masked(Tail(sq), Tail(mask))

\* np.mean of an integer array that may hold NaN: NaN as soon as one element is
mean(sq) ==
  IF \E k \in DOMAIN sq : sq[k].nan THEN NanMetric
  ELSE Metric(Rat(SeqSum([k \in DOMAIN sq |-> sq[k].v]), Len(sq)))

\* the pairwise |a - p| and (a - p) ** 2; NaN where either side is NaN
abs_diff(a, p) ==
  [k \in DOMAIN a |-> IF a[k].nan \/ p[k].nan THEN NanVal ELSE Val(Abs(a[k].v - p[k].v))]
sq_diff(a, p) ==
  [k \in DOMAIN a |-> IF a[k].nan \/ p[k].nan THEN NanVal
                      ELSE Val((a[k].v - p[k].v) * (a[k].v - p[k].v))]

\* the metrics without the NaN mask of evaluate.py 40-41
evaluate_predictions_unmasked(actual, predicted) ==
  LET min_len == Min(Len(actual), Len(predicted))
      a == SubSeq(actual, 1, min_len)
      p == SubSeq(predicted, 1, min_len)
  IN  IF Len(a) = 0 THEN [mae |-> NanMetric, rmse_squared |-> NanMetric]
      ELSE [mae |-> mean(abs_diff(a, p)), rmse_squared |-> mean(sq_diff(a, p))]

\* evaluate.evaluate_predictions(actual, predicted); rmse is the square root of
\* rmse_squared, which is kept exact
evaluate_predictions(actual, predicted) ==
  LET min_len == Min(Len(actual), Len(predicted))
      a0 == SubSeq(actual, 1, min_len)
      p0 == SubSeq(predicted, 1, min_len)
      mask == [k \in 1..min_len |-> ~(a0[k].nan \/ p0[k].nan)]
      a == Masked(a0, mask)
      p == Masked(p0, mask)
  IN  IF Len(a) = 0 THEN [mae |-> NanMetric, rmse_squared |-> NanMetric]
      ELSE [mae |-> mean(abs_diff(a, p)), rmse_squared |-> mean(sq_diff(a, p))]

\* the validation lengths a caller may pass
ValDays == 0..(MaxPoints + 1)

EvalInit ==
  /\ entry = "none"
  /\ pc = "done"
  /\ TrainIdle
  /\ dir_exists = FALSE
  /\ files = EmptyMap
  /\ meta_json = AbsentFile
  /\ meta = EmptyMap
  /\ LoadIdle
  /\ RankIdle
  /\ rank_out = <<>>
  /\ ApiIdle
  /\ call \in {[fn |-> "none", series |-> sr, val_days |-> v] :
                 sr \in SeriesUpTo(MaxPoints), v \in ValDays}
              \cup {[fn |-> "none", actual |-> a, predicted |-> p] :
                      a \in ArraysUpTo(MaxPoints), p \in ArraysUpTo(MaxPoints)}

eval_rest == <<entry, pc, train_vars, disk_vars, meta, load_vars, rank_vars, rank_out, api_vars>>

\* a caller splits a series
CallSplitTrainVal ==
  /\ call.fn = "none"
  /\ "series" \in DOMAIN call
  /\ call' = [fn |-> "split_train_val", series |-> call.series, val_days |-> call.val_days,
              result |-> split_train_val_rows(call.series, call.val_days)]
  /\ UNCHANGED eval_rest

\* a caller evaluates a fitted model on a series; predict does not raise
CallEvaluateProductForecast ==
  /\ call.fn = "none"
  /\ "series" \in DOMAIN call
  /\ call' = [fn |-> "evaluate_product_forecast", series |-> call.series,
              val_days |-> call.val_days,
              result |-> evaluate_product_forecast(Len(call.series), call.val_days)]
  /\ UNCHANGED eval_rest

\* a caller compares two arrays
CallEvaluatePredictions ==
  /\ call.fn = "none"
  /\ "actual" \in DOMAIN call
  /\ call' = [fn |-> "evaluate_predictions", actual |-> call.actual,
              predicted |-> call.predicted,
              result |-> evaluate_predictions(call.actual, call.predicted)]
  /\ UNCHANGED eval_rest

EvalNext == CallSplitTrainVal \/ CallEvaluateProductForecast \/ CallEvaluatePredictions

SpecEval == EvalInit /\ [][EvalNext]_vars

\* ------------------------------------------------------------------------
\* Properties of the ranker
\* ------------------------------------------------------------------------
Ranked == rank_fn # "none"

\* the entries that were ranked, and their index set
RankedEntries == Eligible(rank_in)
RankedIdx == DOMAIN RankedEntries

\* M, the maximum predicted_total over the ranked products, in thousandths
MaxTotal ==
  CHOOSE m \in {RankedEntries[k].predicted_total : k \in RankedIdx} :
    \A k \in RankedIdx : RankedEntries[k].predicted_total <= m

\* the row's 2-decimal predicted_sales, in thousandths
RoundedTotal(k) == 10 * predicted_sales(RankedEntries[k])

\* C2: every returned row has recommendation_score in [0,1] (0..10000
\* ten-thousandths) and the returned list is sorted non-increasing by score.
C2_ScoreInRangeAndSorted ==
  \A k \in DOMAIN rank_out :
    /\ rank_out[k].recommendation_score \in 0..10000
    /\ k < Len(rank_out) =>
         rank_out[k].recommendation_score >= rank_out[k + 1].recommendation_score

\* C2 witness: a ranking of two products, one with a negative total, whose raw
\* blend leaves [0,1], and which the sort reordered.
C2_Witness ==
  /\ Ranked
  /\ Len(rank_out) = 2
  /\ Len(rank_in) = 2
  /\ \E k \in RankedIdx : RankedEntries[k].predicted_total < 0
  /\ \E k \in RankedIdx : RatLess(blend(RankedEntries, k), RatInt(0))
  /\ rank_out[1].product = rank_in[2].product
  /\ rank_out[1].recommendation_score > rank_out[2].recommendation_score

\* C6 (as claimed): every product's sales_norm equals its predicted_total
\* divided by max(M, 1); the divisor is never smaller than 1.
C6_DivisorAtLeastOne ==
  Ranked =>
    \A k \in RankedIdx :
      rank_locals[k].sales_norm =
        Rat(RankedEntries[k].predicted_total,
            IF MaxTotal < 1000 THEN 1000 ELSE MaxTotal)

\* C6 (amended): every product's sales_norm equals its 2-decimal rounded
\* predicted_sales divided by M when M # 0 and by 1 when M = 0.
C6_DivisorIsMaxOrOne ==
  Ranked =>
    \A k \in RankedIdx :
      rank_locals[k].sales_norm =
        Rat(RoundedTotal(k), IF MaxTotal = 0 THEN 1000 ELSE MaxTotal)

\* C6 witness: two products were ranked and the maximum total is 0.5, positive
\* and below 1.
C6_Witness ==
  /\ Ranked
  /\ Len(RankedEntries) = 2
  /\ MaxTotal = 500
  /\ \E k \in RankedIdx : RankedEntries[k].predicted_total < 0

\* C7 (as claimed): the product with the maximum predicted_total has sales_norm
\* exactly 1 and every other ranked product has sales_norm strictly below 1.
C7_MaxIsExactlyOne ==
  Ranked =>
    \A k \in RankedIdx :
      /\ RankedEntries[k].predicted_total = MaxTotal =>
           rank_locals[k].sales_norm = RatInt(1)
      /\ RankedEntries[k].predicted_total # MaxTotal =>
           RatLess(rank_locals[k].sales_norm, RatInt(1))

\* C7 (amended): with M the maximum predicted_total, a product whose total is M
\* has sales_norm round2(M)/M when M # 0 and 0 when M = 0; when M > 0 no
\* product has a larger sales_norm than that one and a product's sales_norm is
\* below 1 exactly when its rounded predicted_sales is below M; when M < 0 no
\* product has a smaller sales_norm than that one.
C7_MaxHasRoundedOverMax ==
  Ranked =>
    \A k \in RankedIdx :
      LET top == CHOOSE j \in RankedIdx : RankedEntries[j].predicted_total = MaxTotal
          r2m == Round(FromUnits(MaxTotal, 3), 2) * 10
      IN  /\ RankedEntries[k].predicted_total = MaxTotal =>
               rank_locals[k].sales_norm =
                 IF MaxTotal = 0 THEN RatInt(0) ELSE Rat(r2m, MaxTotal)
          /\ MaxTotal > 0 =>
               /\ RatLeq(rank_locals[k].sales_norm, rank_locals[top].sales_norm)
               /\ RatLess(rank_locals[k].sales_norm, RatInt(1)) <=> RoundedTotal(k) < MaxTotal
          /\ MaxTotal < 0 =>
               RatLeq(rank_locals[top].sales_norm, rank_locals[k].sales_norm)

\* C7 witness: two products were ranked and the maximum total, 1.004, is no
\* multiple of 0.01, so the top product's sales_norm is 1.00/1.004.
C7_Witness ==
  /\ Ranked
  /\ Len(RankedEntries) = 2
  /\ MaxTotal = 1004
  /\ \E k \in RankedIdx : rank_locals[k].sales_norm = Rat(1000, 1004)
  /\ \E k \in RankedIdx : RankedEntries[k].predicted_total < MaxTotal

\* exact growth_rate_percent of a ranked entry
GrowthOf(k) == growth_rate(RankedEntries[k])
IsMinGrowth(k) == \A j \in RankedIdx : RatLeq(GrowthOf(k), GrowthOf(j))
IsMaxGrowth(k) == \A j \in RankedIdx : RatLeq(GrowthOf(j), GrowthOf(k))
SameGrowth == \A j, k \in RankedIdx : GrowthOf(j) = GrowthOf(k)

\* C8: when the maximum and minimum growth differ, every growth_norm lies in
\* [0,1], the product with the minimum growth gets 0 and the one with the
\* maximum growth gets 1.
C8_GrowthNormMinMax ==
  (Ranked /\ ~SameGrowth) =>
    \A k \in RankedIdx :
      /\ RatLeq(RatInt(0), rank_locals[k].growth_norm)
      /\ RatLeq(rank_locals[k].growth_norm, RatInt(1))
      /\ IsMinGrowth(k) => rank_locals[k].growth_norm = RatInt(0)
      /\ IsMaxGrowth(k) => rank_locals[k].growth_norm = RatInt(1)

\* the score both functions give a row whose growth_norm is 0.5:
\* clamp(0.5 * sales_norm + 0.25, 0, 1) rounded to 4 decimals
HalfGrowthScore(sn) ==
  ClampInt(Round(RatAdd(RatMul(Rat(1, 2), sn), Rat(1, 4)), 4), 0, 10000)

ScoreOf(p) == (CHOOSE r \in Range(rank_out) : r.product = p).recommendation_score

\* C9: if every ranked product has the same growth_rate_percent, every
\* growth_norm is 0.5, every score is clamp(0.5 * sales_norm + 0.25, 0, 1), and
\* a product with a higher score has a higher sales_norm.
C9_IdenticalGrowthScoresBySales ==
  (Ranked /\ SameGrowth) =>
    /\ Len(rank_out) = Len(RankedEntries)
    /\ \A k \in RankedIdx :
         /\ rank_locals[k].growth_norm = Rat(1, 2)
         /\ ScoreOf(rank_locals[k].product) = HalfGrowthScore(rank_locals[k].sales_norm)
    /\ \A j, k \in RankedIdx :
         ScoreOf(rank_locals[j].product) > ScoreOf(rank_locals[k].product) =>
           RatLess(rank_locals[k].sales_norm, rank_locals[j].sales_norm)

\* C9 witness: two products with the same growth and different sales_norm were
\* ranked, the one supplied second first in the output.
C9_Witness ==
  /\ Ranked
  /\ Len(RankedEntries) = 2
  /\ SameGrowth
  /\ rank_locals[1].sales_norm # rank_locals[2].sales_norm
  /\ rank_out[1].product = RankedEntries[2].product

\* the entries in ascending order of product name
RECURSIVE InsertByName(_, _)
InsertByName(sorted, e) ==
  IF sorted = <<>> THEN <<e>>
  ELSE IF NameRank(Head(sorted).product) <= NameRank(e.product)
       THEN <<Head(sorted)>> \o InsertByName(Tail(sorted), e)
       ELSE <<e>> \o sorted

RECURSIVE ByName(_)
ByName(es) == IF es = <<>> THEN <<>> ELSE InsertByName(ByName(Tail(es)), Head(es))

\* C10: the returned list does not depend on the order in which the products
\* are supplied: it is the list returned for the same entries supplied in
\* ascending order of product name.
C10_OrderIndependent ==
  /\ rank_fn = "build_recommendations" =>
       rank_out = build_recommendations(ByName(rank_in))
  /\ rank_fn = "get_recommendations_from_models" =>
       rank_out = rank_inference_rows(ByName(RankedEntries))

\* ------------------------------------------------------------------------
\* Properties of the training entry points and of the artifact store
\* ------------------------------------------------------------------------
Ended == pc \in {"done", "raised"}

\* the loop reached the product
Processed(p) == p \in Keys(trace)

\* by its own series and its own ForecastModel fault alone, the entry point
\* trains p and hands it on
TrainsAlone(p) ==
  IF entry = "run_pipeline"
  THEN Last(StagesOf(series_len[p], fault[p], VAL_DAYS)) = "return"
  ELSE IF entry = "run_training_only"
  THEN series_len[p] >= MIN_FIT_POINTS /\ fault[p] # "fit_full"
  ELSE series_len[p] >= MIN_FIT_POINTS /\ fault[p] \notin {"fit_full", "predict_full"}

\* the entry point handed p's result on: its metadata entry (training only) or
\* its row in the returned recommendations
Delivered(p) ==
  IF entry = "run_training_only"
  THEN pc = "done" /\ p \in Keys(meta_json.doc)
  ELSE pc = "done" /\ \E k \in DOMAIN rank_out : rank_out[k].product = p

\* C1: in every entry point that iterates over products, once it has ended every
\* product of the list was processed, and a product whose own series and own
\* fit and predict are in order was trained and handed on, whatever happened to
\* the other products.
C1_ProductsIndependent ==
  (entry \in EntryPoints /\ Ended) =>
    \A p \in Range(products) :
      /\ Processed(p)
      /\ TrainsAlone(p) => Delivered(p)

\* the artifacts load_models can deserialize, and the product names it gives them
Readable == {st \in Keys(files) : files[st] # Corrupt}
ReadableNames == {stem_to_product(st) : st \in Readable}
CorruptNames == {stem_to_product(st) : st \in Keys(files) \ Readable} \ ReadableNames

\* C3: load_models never raises; the store it returns holds exactly the products
\* whose artifact deserializes, a product whose artifact is corrupt has no model
\* and no metadata record, and an absent directory yields an empty store.
C3_StoreHoldsExactlyReadable ==
  (entry = "load_models" /\ pc # "start") =>
    /\ pc = "done"
    /\ Keys(models) = (IF dir_exists THEN ReadableNames ELSE {})
    /\ \A p \in CorruptNames : p \notin Keys(models) /\ p \notin Keys(meta)
    /\ ~dir_exists => Keys(meta) = {}

\* C4: after run_pipeline the metrics document has one entry for each product
\* of the processed list, with NaN mae and rmse when validation was impossible
\* or the product was skipped, and with an error when the product failed.
C4_MetricsForEveryProduct ==
  (entry = "run_pipeline" /\ pc = "done" /\ products # <<>>) =>
    /\ metrics_json.state = "object"
    /\ Keys(metrics_json.doc) = Range(products)
    /\ \A p \in Range(products) \cap Keys(metrics_json.doc) :
         LET st == StagesOf(series_len[p], fault[p], VAL_DAYS)
             m == metrics_json.doc[p]
         IN  /\ Last(st) \in {"prepare", "split"} => m = NanMetrics
             /\ (Last(st) = "return" /\ ~ValPredictRuns(series_len[p], VAL_DAYS)) => m = NanMetrics
             /\ Last(st) \notin {"prepare", "split", "return"} => m = ErrorMetrics

\* products of the run with a persisted artifact file, and those trained
WithArtifact == {p \in Range(products) : _safe_fname(p) \in Keys(files)}
SuccessfullyTrained == {p \in Range(products) : TrainsAlone(p)}

\* C5: after run_pipeline and after run_training_only on an empty models
\* directory, the products with a persisted artifact are the products with a
\* metadata entry, and both are the successfully trained products.
C5_ArtifactsMatchMetadata ==
  (entry \in {"run_pipeline", "run_training_only"} /\ pc = "done" /\ products # <<>>) =>
    /\ meta_json.state = "object"
    /\ WithArtifact = Keys(meta_json.doc)
    /\ Keys(meta_json.doc) = SuccessfullyTrained

\* ------------------------------------------------------------------------
\* Properties of evaluate.py
\* ------------------------------------------------------------------------
DateSorted(sq) == \A j, k \in DOMAIN sq : j < k => sq[j].ds < sq[k].ds

\* C11: split_train_val is a suffix split of the date-sorted series.  With L
\* points, L <= val_days gives the whole series as training set and an empty
\* validation set, and evaluate_product_forecast then returns NaN metrics;
\* otherwise the validation set is the last val_days points and the training
\* set the first L - val_days.  Training set followed by validation set is
\* the series in date order, with no point lost or duplicated.
C11_SplitIsSuffixSplit ==
  /\ call.fn = "split_train_val" =>
       LET L == Len(call.series)
           train == call.result[1]
           val == call.result[2]
           whole == train \o val
       IN  /\ L <= call.val_days => Len(train) = L /\ val = <<>>
           /\ L > call.val_days => Len(val) = call.val_days /\ Len(train) = L - call.val_days
           /\ DateSorted(whole)
           /\ Len(whole) = L
           /\ Range(whole) = Range(call.series)
           /\ split_train_val(L, call.val_days) = <<Len(train), Len(val)>>
  /\ call.fn = "evaluate_product_forecast" /\ Len(call.series) <= call.val_days =>
       call.result = NanMetrics

\* an unsorted series longer than val_days was split into two non-empty parts
C11_Witness ==
  /\ call.fn = "split_train_val"
  /\ ~DateSorted(call.series)
  /\ call.result[1] # <<>>
  /\ call.result[2] # <<>>
  /\ Len(call.result[2]) = call.val_days

\* ------------------------------------------------------------------------
\* Properties of the query contract
\* ------------------------------------------------------------------------
\* the API process is up and loaded no model
NothingLoaded == api_up /\ ~models_loaded

\* a direct call of get_recommendations_from_models on an empty models dict
RankedEmptyStore ==
  entry = "load_models" /\ rank_fn = "get_recommendations_from_models" /\ models_keys = <<>>

\* C12 as stated: with no artifacts loaded, the /recommend handler,
\* get_recommendations_from_models and the /products handler all return an
\* empty list.
C12_EmptyWhenNothingLoaded ==
  /\ (NothingLoaded /\ response.handler \in {"recommend", "products"}) => response.body = <<>>
  /\ RankedEmptyStore => rank_out = <<>>

\* C12 amended: with no artifacts loaded, get_recommendations_from_models and
\* the /products handler return an empty list, and the /recommend handler
\* returns the fixed three-row mock list; none of them raises.
C12_MockWhenNothingLoaded ==
  /\ NothingLoaded => models_keys = <<>>
  /\ (NothingLoaded /\ response.handler = "recommend") => response.body = MockRecommendations
  /\ (NothingLoaded /\ response.handler = "products") => response.body = <<>>
  /\ RankedEmptyStore => pc = "done" /\ rank_out = <<>>

\* /recommend answered after a startup that found only an unreadable artifact
C12_Witness ==
  /\ NothingLoaded
  /\ Keys(files) # {}
  /\ response.handler = "recommend"

\* ------------------------------------------------------------------------
\* Properties of load_models' metadata regeneration
\* ------------------------------------------------------------------------
\* load_models returned from a directory that has no meta.json
LoadedWithoutMetaFile ==
  entry = "load_models" /\ pc = "done" /\ dir_exists /\ meta_json = AbsentFile

\* C13: when meta.json is absent from a directory with artifacts, load_models
\* generates for each discovered artifact a metadata record with the
\* placeholder baseline 100 under the artifact's product key, so every loaded
\* model has a metadata record under its key, and ranking takes every loaded
\* model whose prediction succeeds.
C13_PlaceholderPerArtifact ==
  LoadedWithoutMetaFile =>
    /\ Keys(meta) = {stem_to_product(st) : st \in Keys(files)}
    /\ \A p \in Keys(meta) : meta[p].past_avg = 1000 * DEFAULT_PAST_AVG
    /\ Range(models_keys) \subseteq Keys(meta)
    /\ rank_fn = "get_recommendations_from_models" =>
         /\ \A k \in DOMAIN rank_in : rank_in[k].past_avg = 1000 * DEFAULT_PAST_AVG
         /\ {rank_out[k].product : k \in DOMAIN rank_out}
              = {rank_in[k].product : k \in {j \in DOMAIN rank_in : rank_in[j].complete}}

\* two artifacts without meta.json, one of them unreadable; the readable one
\* was loaded and ranked
C13_Witness ==
  /\ LoadedWithoutMetaFile
  /\ Cardinality(Keys(files)) = 2
  /\ Len(models_keys) = 1
  /\ Len(rank_out) = 1

\* ------------------------------------------------------------------------
\* Properties of evaluate_predictions
\* ------------------------------------------------------------------------
\* the positions, within the shorter length, where neither array holds NaN
ValidPairs(actual, predicted) ==
  {k \in 1..Min(Len(actual), Len(predicted)) : ~actual[k].nan /\ ~predicted[k].nan}

Zero == <<0, 1>>

\* C14: evaluate_predictions returns NaN for mae and rmse exactly when no valid
\* pair remains after truncating both arrays to the shorter length and
\* dropping every pair with a NaN on either side; otherwise both are numbers,
\* and both are 0 when the two values of every remaining pair are equal.
C14_NanIffNoValidPair ==
  call.fn = "evaluate_predictions" =>
    LET valid == ValidPairs(call.actual, call.predicted)
        mae == call.result.mae
        rmse2 == call.result.rmse_squared
    IN  /\ mae.nan <=> valid = {}
        /\ rmse2.nan <=> valid = {}
        /\ valid # {} => RatLeq(Zero, mae.v) /\ RatLeq(Zero, rmse2.v)
        /\ (valid # {} /\ \A k \in valid : call.actual[k].v = call.predicted[k].v)
             => mae.v = Zero /\ rmse2.v = Zero

\* arrays of different lengths with a NaN: a pair was dropped, a pair was cut
\* off, and the remaining pairs are equal
C14_Witness ==
  /\ call.fn = "evaluate_predictions"
  /\ Len(call.actual) # Len(call.predicted)
  /\ \E k \in 1..Min(Len(call.actual), Len(call.predicted)) : call.actual[k].nan
  /\ ValidPairs(call.actual, call.predicted) # {}
  /\ ~call.result.mae.nan
  /\ call.result.mae.v = Zero

\* ------------------------------------------------------------------------
\* Properties of the per-product stages of run_pipeline
\* ------------------------------------------------------------------------
\* the stages of one product in the order the claim gives them, between the
\* series preparation before them and the forecast and return after them
PipelineOrder ==
  <<"prepare", "split", "fit_val", "evaluate", "fit_full", "persist", "forecast", "return">>

IsPrefix(a, b) == Len(a) <= Len(b) /\ \A k \in DOMAIN a : a[k] = b[k]

\* the stage in which a fault of the ForecastModel shows
FaultStage(f) ==
  IF f = "predict_val" THEN "evaluate" ELSE IF f = "predict_full" THEN "forecast" ELSE f

\* C15: in run_pipeline the stages of each product happen at most once each
\* and in the order split, validation fit, evaluate, production fit, persist;
\* every model in the store is a production model fitted on the full series
\* and written by the persist stage of its product, never the validation-fit
\* model; a product is iterated over once, and a stage that failed is the
\* last stage of its product.
C15_StagesOnceInOrder ==
  entry = "run_pipeline" =>
    /\ Keys(trace) = {products[k] : k \in 1..(idx - 1)}
    /\ \A p \in Keys(trace) :
         /\ IsPrefix(trace[p], PipelineOrder)
         /\ Last(trace[p]) \notin {"prepare", "split", "return"}
              => Last(trace[p]) = FaultStage(fault[p])
    /\ \A stem \in Keys(files) :
         /\ files[stem].fitted_on = "full"
         /\ files[stem].product \in Keys(trace)
         /\ Has(trace[files[stem].product], "persist")
         /\ _safe_fname(files[stem].product) = stem

\* a run in which one product went through every stage and another failed in
\* its production fit after its validation fit succeeded
C15_Witness ==
  /\ entry = "run_pipeline"
  /\ pc = "done"
  /\ \E p, q \in Keys(trace) :
       /\ Last(trace[p]) = "return"
       /\ Last(trace[q]) = "fit_full"
       /\ _safe_fname(p) \in Keys(files)
       /\ _safe_fname(q) \notin Keys(files)

\* a product with at least 10 points whose validation is impossible: its
\* training portion has fewer than 2 points, or its validation set is empty
ValidationImpossible(p) ==
  LET tv == split_train_val(series_len[p], VAL_DAYS)
  IN  series_len[p] >= MIN_EVAL_POINTS /\ (tv[1] < MIN_FIT_POINTS \/ tv[2] = 0)

\* C16: in run_pipeline, for a product with at least 10 points whose
\* validation is impossible and whose fits do not fail, only the validation
\* fit is skipped: no validation model is fitted, the product's metrics are
\* NaN, and the production model is fitted on the full series and persisted
\* together with its metadata entry.
C16_OnlyValidationSkipped ==
  (entry = "run_pipeline" /\ pc = "done") =>
    \A p \in Range(products) :
      (ValidationImpossible(p) /\ fault[p] = "none") =>
        /\ ~Has(trace[p], "fit_val")
        /\ p \in Keys(metrics_json.doc)
        /\ metrics_json.doc[p] = NanMetrics
        /\ Has(trace[p], "fit_full")
        /\ Has(trace[p], "persist")
        /\ _safe_fname(p) \in Keys(files)
        /\ files[_safe_fname(p)].fitted_on = "full"
        /\ p \in Keys(meta_json.doc)

\* ------------------------------------------------------------------------
\* Properties of artifact naming
\* ------------------------------------------------------------------------
\* load_models returned from the directory a training run wrote
LoadedAfterTraining == entry = "load_models" /\ pc = "done" /\ products # <<>>

\* the products whose iteration ran to its end: artifact and metadata written
PersistedProducts == {p \in Keys(trace) : Last(trace[p]) \in {"return", "meta"}}

\* C17: artifact naming round-trips.  For every product name p persisted by
\* run_training_only or run_pipeline, load_models on the same directory
\* returns p's model under the key p, paired with the metadata record written
\* at training time and not with the placeholder record; and two distinct
\* product names never share one artifact file.
C17_NamesRoundTrip ==
  /\ LoadedAfterTraining =>
       \A p \in PersistedProducts :
         /\ p \in Keys(models)
         /\ models[p] = Model(p, "full")
         /\ p \in Keys(meta)
         /\ p \in Keys(meta_json.doc)
         /\ meta[p] = meta_json.doc[p]
         /\ \A q \in Keys(models) : stem_to_product(_safe_fname(p)) = q => q = p
  /\ \A p, q \in PersistedProducts : p # q => _safe_fname(p) # _safe_fname(q)
====
